---- MODULE Spec2Model ----
(***************************************************************************)
(* A model of the todo-app command line program (src/main.go).            *)
(*                                                                         *)
(* One run of the program is one behaviour: flag.Parse sets the value of  *)
(* the -add flag, ParseInput deserialises it with json.Unmarshal, parses  *)
(* the due date with time.Parse, builds the ParsedTodoItem, and           *)
(* PrettyPrintItem renders it with json.MarshalIndent and writes it with  *)
(* fmt.Printf.  log.Fatal ends the run with exit status 1.                *)
(*                                                                         *)
(* Texts are sequences of one-character strings.  The value of the -add   *)
(* flag is the sequence of lexemes encoding/json's scanner splits it      *)
(* into; a string lexeme carries the characters it decodes to.            *)
(***************************************************************************)
EXTENDS Integers, Sequences, FiniteSets

VARIABLES
    pc,             \* the statement of main / ParseInput / PrettyPrintItem to run next
    addGiven,       \* whether the command line gave -add
    flagValue,      \* *todoItem (the package-level flag variable, line 12)
    todoItem,       \* ParseInput's local var todoItem TodoItem (line 48)
    parsedDueDate,  \* ParseInput's parsedDueDate: {} before line 55, then {t}
    parsedItem,     \* ParseInput's parsedItem: {} before line 57, then {item}
    formattedItem,  \* PrettyPrintItem's formattedItem: {} before line 65, then {text}
    printErr,       \* the error PrettyPrintItem returned to main: "" is nil
    stdout,         \* the characters written to standard output
    stderr,         \* the diagnostics log.Fatal wrote, in order
    termination,    \* "running", "exit" (os.Exit or return from main), "SIGPIPE"
    exitStatus      \* the exit status once termination = "exit"

vars == <<pc, addGiven, flagValue, todoItem, parsedDueDate, parsedItem,
          formattedItem, printErr, stdout, stderr, termination, exitStatus>>

(***************************************************************************)
(* Bounds of the model.                                                    *)
(***************************************************************************)
\* The longest task text of a generated object input.
MaxTodoLen == 2

\* The longest free-form lexeme sequence given to -add.
MaxRawLen == 3

(***************************************************************************)
(* Texts.                                                                  *)
(***************************************************************************)
Digits == <<"0", "1", "2", "3", "4", "5", "6", "7", "8", "9">>

DigitChars == {Digits[i] : i \in 1..10}

\* The character of one decimal digit.
DigitChar(d) == Digits[d + 1]

\* The value of a digit character.
DigitVal(c) == (CHOOSE i \in 1..10 : Digits[i] = c) - 1

\* isDigit(s, i) of package time, with i counted from 1.
IsDigit(s, i) == i <= Len(s) /\ s[i] \in DigitChars

\* n in decimal, zero-padded to two and to four digits.
Pad2(n) == <<DigitChar((n \div 10) % 10), DigitChar(n % 10)>>

Pad4(n) == <<DigitChar((n \div 1000) % 10), DigitChar((n \div 100) % 10)>> \o Pad2(n)

\* Whether text t occurs in text s as a contiguous run of characters.
Contains(s, t) ==
    \E i \in 0..(Len(s) - Len(t)) : SubSeq(s, i + 1, i + Len(t)) = t

\* All texts over alphabet A of length at most n.
TextsUpTo(A, n) == UNION {[1..k -> A] : k \in 0..n}

(***************************************************************************)
(* Lexemes of a JSON text.  "word" is a run of characters that begins no   *)
(* JSON value (a bare word such as Something): the scanner rejects it.     *)
(***************************************************************************)
Tok(t, v) == [t |-> t, v |-> v]

P(t) == Tok(t, <<>>)

Str(s) == Tok("string", s)

ScalarKinds == {"string", "number", "true", "false", "null"}

(***************************************************************************)
(* json.Unmarshal, first pass: checkValid scans the whole text and fails   *)
(* on the first syntax error.  ScanValue returns the index after the value *)
(* that starts at i, or 0 when there is no value there.                    *)
(***************************************************************************)
RECURSIVE ScanValue(_, _), ScanElems(_, _), ScanMembers(_, _)

ScanValue(toks, i) ==
    IF i > Len(toks) THEN 0
    ELSE IF toks[i].t \in ScalarKinds THEN i + 1
    ELSE IF toks[i].t = "[" THEN
        IF i + 1 <= Len(toks) /\ toks[i + 1].t = "]" THEN i + 2
        ELSE ScanElems(toks, i + 1)
    ELSE IF toks[i].t = "{" THEN
        IF i + 1 <= Len(toks) /\ toks[i + 1].t = "}" THEN i + 2
        ELSE ScanMembers(toks, i + 1)
    ELSE 0

ScanElems(toks, i) ==
    LET j == ScanValue(toks, i) IN
    IF j = 0 \/ j > Len(toks) THEN 0
    ELSE IF toks[j].t = "," THEN ScanElems(toks, j + 1)
    ELSE IF toks[j].t = "]" THEN j + 1
    ELSE 0

ScanMembers(toks, i) ==
    IF i + 1 > Len(toks) \/ toks[i].t # "string" \/ toks[i + 1].t # ":" THEN 0
    ELSE LET j == ScanValue(toks, i + 2) IN
         IF j = 0 \/ j > Len(toks) THEN 0
         ELSE IF toks[j].t = "," THEN ScanMembers(toks, j + 1)
         ELSE IF toks[j].t = "}" THEN j + 1
         ELSE 0

\* checkValid: the text is exactly one JSON value.
checkValid(toks) == ScanValue(toks, 1) = Len(toks) + 1

(***************************************************************************)
(* json.Unmarshal, second pass: decoding into a TodoItem (lines 16-19).    *)
(***************************************************************************)
\* The zero value of TodoItem: what var todoItem TodoItem declares.
ZeroTodoItem == [Todo |-> <<>>, Due |-> <<>>]

\* The members of the object that starts at toks[1], in order: each key with
\* the first lexeme of its value.  i is the index of a key, or of the closing
\* brace of an empty object.
RECURSIVE MemberSeq(_, _)

MemberSeq(toks, i) ==
    IF toks[i].t = "}" THEN <<>>
    ELSE LET j == ScanValue(toks, i + 2) IN
         <<[key |-> toks[i].v, val |-> toks[i + 2]]>>
             \o (IF toks[j].t = "," THEN MemberSeq(toks, j + 1) ELSE <<>>)

\* Simple case folding of the letters the field names use.
FoldChar(c) ==
    CASE c = "T" -> "t"
      [] c = "O" -> "o"
      [] c = "D" -> "d"
      [] c = "U" -> "u"
      [] c = "E" -> "e"
      [] OTHER -> c

FoldText(s) == [i \in 1..Len(s) |-> FoldChar(s[i])]

\* The struct tags of TodoItem: `json:"todo"` and `json:"due,omitempty"`.
TodoKey == <<"t", "o", "d", "o">>

DueKey == <<"d", "u", "e">>

\* The field of TodoItem a key decodes into, "" when it names none (the
\* member is skipped).  encoding/json matches the tag name exactly or, failing
\* that, case-insensitively.
FieldOf(key) ==
    IF FoldText(key) = TodoKey THEN "Todo"
    ELSE IF FoldText(key) = DueKey THEN "Due"
    ELSE ""

\* Decoding the members from the k-th on into acc = [err, item].  A string
\* value is stored; null has no effect on a string field; any other value is
\* an UnmarshalTypeError, which is saved while decoding goes on.
RECURSIVE DecodeMembers(_, _, _)

DecodeMembers(ms, k, acc) ==
    IF k > Len(ms) THEN acc
    ELSE LET f == FieldOf(ms[k].key)
             v == ms[k].val
             next ==
                 IF f = "" \/ v.t = "null" THEN acc
                 ELSE IF v.t = "string" THEN
                     [acc EXCEPT !.item = [acc.item EXCEPT ![f] = v.v]]
                 ELSE [acc EXCEPT !.err = TRUE]
         IN DecodeMembers(ms, k + 1, next)

\* json.Unmarshal(text, &todoItem) on a zero TodoItem: [err, item].  A syntax
\* error leaves the item untouched; a top-level null has no effect and is no
\* error; any other top-level value that is no object is an
\* UnmarshalTypeError.
\* A variant that decodes without failing on a syntax error.
UnmarshalSkipsCheck(toks) ==
    IF ~checkValid(toks) \/ toks[1].t = "null" THEN [err |-> FALSE, item |-> ZeroTodoItem]
    ELSE IF toks[1].t = "{" THEN
        DecodeMembers(MemberSeq(toks, 2), 1, [err |-> FALSE, item |-> ZeroTodoItem])
    ELSE [err |-> TRUE, item |-> ZeroTodoItem]

Unmarshal(toks) ==
    IF ~checkValid(toks) THEN [err |-> TRUE, item |-> ZeroTodoItem]
    ELSE IF toks[1].t = "null" THEN [err |-> FALSE, item |-> ZeroTodoItem]
    ELSE IF toks[1].t = "{" THEN
        DecodeMembers(MemberSeq(toks, 2), 1, [err |-> FALSE, item |-> ZeroTodoItem])
    ELSE [err |-> TRUE, item |-> ZeroTodoItem]

(***************************************************************************)
(* Dates.  A time.Time that time.Parse returns for the layout 2006-01-02   *)
(* is midnight UTC of a day: [year, month, day].                           *)
(***************************************************************************)
\* time.Time{}: January 1, year 1, 00:00:00 UTC.
ZeroTime == [year |-> 1, month |-> 1, day |-> 1]

isLeap(year) == year % 4 = 0 /\ (year % 100 # 0 \/ year % 400 = 0)

\* A variant that takes every month to have 31 days.
daysInIgnoresMonth(month, year) == 31

\* daysIn(m, year) of package time.
daysIn(month, year) ==
    IF month = 2 THEN (IF isLeap(year) THEN 29 ELSE 28)
    ELSE IF month \in {4, 6, 9, 11} THEN 30
    ELSE 31

\* The number two digit characters spell.
TwoDigits(s, i) == DigitVal(s[i]) * 10 + DigitVal(s[i + 1])

\* time.Parse("2006-01-02", value): [ok, t].  Four digits, "-", two digits,
\* "-", two digits and no text after them; then the month and the day must be
\* in range.
timeParse(value) ==
    IF /\ Len(value) = 10
       /\ \A i \in {1, 2, 3, 4, 6, 7, 9, 10} : IsDigit(value, i)
       /\ value[5] = "-"
       /\ value[8] = "-"
    THEN LET year == TwoDigits(value, 1) * 100 + TwoDigits(value, 3)
             month == TwoDigits(value, 6)
             day == TwoDigits(value, 9)
         IN IF month >= 1 /\ month <= 12 /\ day >= 1 /\ day <= daysIn(month, year)
            THEN [ok |-> TRUE, t |-> [year |-> year, month |-> month, day |-> day]]
            ELSE [ok |-> FALSE, t |-> ZeroTime]
    ELSE [ok |-> FALSE, t |-> ZeroTime]

\* A variant without the test for the empty text (lines 29-31).
parseDuedateAlwaysParses(dueDate) == timeParse(dueDate)

\* parseDuedate (lines 28-42) up to the log.Fatal: [ok, t], ok false when
\* line 38 is reached.
parseDuedate(dueDate) ==
    IF dueDate = <<>> THEN [ok |-> TRUE, t |-> ZeroTime]
    ELSE timeParse(dueDate)

\* ParsedTodoItem{Todo: todoItem.Todo, Due: parsedDueDate} (line 57).
\* A variant that leaves the Todo of the item unset.
BuildDropsTodo(raw, due) == [Todo |-> <<>>, Due |-> due]

BuildParsedItem(raw, due) == [Todo |-> raw.Todo, Due |-> due]

(***************************************************************************)
(* Rendering: json.MarshalIndent(item, "\t", "\t") and the Printf format.  *)
(***************************************************************************)
\* What encoding/json writes for one character of a string: the quote and
\* the backslash are escaped, and so are <, > and & (Marshal escapes HTML).
EscapeChar(c) ==
    CASE c = "\"" -> <<"\\", "\"">>
      [] c = "\\" -> <<"\\", "\\">>
      [] c = "\n" -> <<"\\", "n">>
      [] c = "<" -> <<"\\", "u", "0", "0", "3", "c">>
      [] c = ">" -> <<"\\", "u", "0", "0", "3", "e">>
      [] c = "&" -> <<"\\", "u", "0", "0", "2", "6">>
      [] OTHER -> <<c>>

RECURSIVE EscapeText(_)

EscapeText(s) ==
    IF s = <<>> THEN <<>> ELSE EscapeChar(Head(s)) \o EscapeText(Tail(s))

\* A Go string as a JSON string.
EncodeString(s) == <<"\"">> \o EscapeText(s) \o <<"\"">>

\* Time.MarshalJSON: [err, text].  A year outside [0,9999] is an error; the
\* text is the RFC 3339 form of midnight UTC, quoted.
MarshalTime(t) ==
    IF t.year < 0 \/ t.year > 9999 THEN [err |-> TRUE, text |-> <<>>]
    ELSE [err |-> FALSE,
          text |-> <<"\"">> \o Pad4(t.year) \o <<"-">> \o Pad2(t.month) \o <<"-">>
                   \o Pad2(t.day)
                   \o <<"T", "0", "0", ":", "0", "0", ":", "0", "0", "Z", "\"">>]

\* json.MarshalIndent(item, "\t", "\t") (line 65): [err, text].  Each line
\* after the first begins with the prefix and one indent per nesting level.
MarshalIndent(item) ==
    LET due == MarshalTime(item.Due) IN
    IF due.err THEN [err |-> TRUE, text |-> <<>>]
    ELSE [err |-> FALSE,
          text |-> <<"{", "\n", "\t", "\t", "\"", "T", "o", "d", "o", "\"", ":", " ">>
                   \o EncodeString(item.Todo)
                   \o <<",", "\n", "\t", "\t", "\"", "D", "u", "e", "\"", ":", " ">>
                   \o due.text
                   \o <<"\n", "\t", "}">>]

\* The text Printf formats from "You entered:\n\n\t%s" (line 69).
PrintfText(formatted) ==
    <<"Y", "o", "u", " ", "e", "n", "t", "e", "r", "e", "d", ":", "\n", "\n", "\t">>
        \o formatted

\* What a write to standard output can come to.  "ok": all is written.
\* "error": the write fails and Printf returns the error (a closed
\* descriptor, a full disk, or a broken pipe with SIGPIPE ignored).
\* "SIGPIPE": the write hits a broken pipe; for descriptor 1 the Go runtime
\* then raises SIGPIPE and the process dies inside the write (os/signal:
\* "A write to a broken pipe on file descriptors 1 or 2 will cause the
\* program to exit with a SIGPIPE signal").  A write that fails is taken to
\* have written nothing.
WriteResults == {"ok", "error", "SIGPIPE"}

\* The diagnostics of the two log.Fatal calls (lines 52 and 38).
InvalidJSON == "Invalid JSON passed to ./todo-app"

BadDate == "Badly formed due date."

\* A variant in which main turns a returned error into exit status 1.
mainChecksPrintErr(err) == IF err = "" THEN 0 ELSE 1

\* The exit status of main when PrettyPrintItem returned err (lines 75-76):
\* main drops both results and returns.
mainExitStatus(err) == 0

(***************************************************************************)
(* The values given to -add.                                               *)
(***************************************************************************)
\* The default of the flag (line 12), Something worth doing: three bare words.
DefaultAdd == <<P("word"), P("word"), P("word")>>

\* The characters of the generated task texts.
TodoChars == {"a", "\"", "\\", "<", "&"}

TodoTexts == TextsUpTo(TodoChars, MaxTodoLen)

DateText(y, m, d) == Pad4(y) \o <<"-">> \o Pad2(m) \o <<"-">> \o Pad2(d)

\* Due texts: dates, real and impossible, in the form YYYY-MM-DD, and texts
\* in other forms (other separators, day first, one-digit month, text after
\* the date, a leading blank, a two-digit year, no digits).
DueTexts ==
    {DateText(y, m, d) : y \in {1, 1900, 2000, 2020}, m \in {2, 13}, d \in {1, 29, 30}}
    \cup {DateText(1, 1, 1), DateText(2020, 4, 31), DateText(2020, 12, 31), DateText(2020, 0, 1),
          DateText(2020, 1, 0), DateText(2020, 1, 32), DateText(0, 1, 1),
          DateText(9999, 12, 31)}
    \cup {<<>>,
          <<"2", "0", "2", "0", "/", "0", "2", "/", "0", "2">>,
          <<"0", "2", "-", "0", "2", "-", "2", "0", "2", "0">>,
          <<"2", "0", "2", "0", "-", "2", "-", "0", "2">>,
          <<"2", "0", "2", "0", "-", "0", "2", "-", "0", "2", "Z">>,
          <<" ", "2", "0", "2", "0", "-", "0", "2", "-", "0", "2">>,
          <<"2", "0", "-", "0", "2", "-", "0", "2">>,
          <<"2", "0", "2", "0", "0", "2", "0", "2">>,
          <<"a">>}

\* Values that are no string: a number, true, null, [] and {}.
NonStringValues ==
    {<<P("number")>>, <<P("true")>>, <<P("null")>>, <<P("["), P("]")>>,
     <<P("{"), P("}")>>}

TaskKey == <<"t", "a", "s", "k">>

\* A member: the key, the colon, the value.
Member(key, value) == <<Str(key), P(":")>> \o value

\* The task member of a generated object: under todo any value, under task
\* (the README's key) and under Todo a string.
TodoMembers ==
    {Member(TodoKey, <<Str(s)>>) : s \in TodoTexts}
    \cup {Member(TodoKey, v) : v \in NonStringValues}
    \cup {Member(TaskKey, <<Str(s)>>) : s \in TodoTexts}
    \cup {Member(<<"T", "o", "d", "o">>, <<Str(s)>>) : s \in TodoTexts}

DueMembers ==
    {Member(DueKey, <<Str(s)>>) : s \in DueTexts}
    \cup {Member(DueKey, v) : v \in NonStringValues}

\* The object with the given members (each <<>> when left out).
ObjectText(tm, dm) ==
    <<P("{")>> \o tm \o (IF tm # <<>> /\ dm # <<>> THEN <<P(",")>> ELSE <<>>) \o dm
        \o <<P("}")>>

ObjectInputs ==
    {ObjectText(tm, dm) : tm \in TodoMembers \cup {<<>>}, dm \in DueMembers \cup {<<>>}}

\* Free-form lexeme sequences: most of them are no JSON text.
RawToks ==
    {P("{"), P("}"), P("["), P("]"), P(":"), P(","), Str(<<"a">>), P("number"),
     P("null"), P("word")}

RawInputs == TextsUpTo(RawToks, MaxRawLen)

Inputs == ObjectInputs \cup RawInputs

(***************************************************************************)
(* The run.                                                                *)
(***************************************************************************)
The(S) == CHOOSE x \in S : TRUE

Init ==
    /\ pc = "flag.Parse"
    /\ addGiven = FALSE
    /\ flagValue = DefaultAdd
    /\ todoItem = ZeroTodoItem
    /\ parsedDueDate = {}
    /\ parsedItem = {}
    /\ formattedItem = {}
    /\ printErr = ""
    /\ stdout = <<>>
    /\ stderr = <<>>
    /\ termination = "running"
    /\ exitStatus = 0

\* A variant that writes the diagnostic and returns (log.Print).
LogPrint(msg, after) ==
    /\ stderr' = Append(stderr, msg)
    /\ pc' = after
    /\ UNCHANGED <<termination, exitStatus>>

\* log.Fatal(msg): the diagnostic goes to standard error and os.Exit(1) ends
\* the process; the statement `after` the call is never reached.
LogFatal(msg, after) ==
    /\ stderr' = Append(stderr, msg)
    /\ termination' = "exit"
    /\ exitStatus' = 1
    /\ pc' = "exited"

\* flag.Parse() (line 73): -add sets *todoItem, or is absent and leaves the
\* default.
FlagParse ==
    /\ pc = "flag.Parse"
    /\ \/ /\ addGiven' = FALSE
          /\ flagValue' = flagValue
       \/ \E v \in Inputs :
             /\ addGiven' = TRUE
             /\ flagValue' = v
    /\ pc' = "Unmarshal"
    /\ UNCHANGED <<todoItem, parsedDueDate, parsedItem, formattedItem, printErr,
                   stdout, stderr, termination, exitStatus>>

\* ParseInput, lines 48-53: json.Unmarshal into todoItem, log.Fatal on error.
Deserialize ==
    /\ pc = "Unmarshal"
    /\ LET r == Unmarshal(flagValue) IN
       /\ todoItem' = r.item
       /\ IF r.err
          THEN LogFatal(InvalidJSON, "parseDuedate")
          ELSE /\ pc' = "parseDuedate"
               /\ UNCHANGED <<stderr, termination, exitStatus>>
    /\ UNCHANGED <<addGiven, flagValue, parsedDueDate, parsedItem, formattedItem,
                   printErr, stdout>>

\* ParseInput, line 55: parseDuedate(todoItem.Due) (lines 28-42).
ParseDueDate ==
    /\ pc = "parseDuedate"
    /\ LET r == parseDuedate(todoItem.Due) IN
       IF r.ok
       THEN /\ parsedDueDate' = {r.t}
            /\ pc' = "BuildParsedItem"
            /\ UNCHANGED <<stderr, termination, exitStatus>>
       ELSE /\ LogFatal(BadDate, "BuildParsedItem")
            /\ UNCHANGED parsedDueDate
    /\ UNCHANGED <<addGiven, flagValue, todoItem, parsedItem, formattedItem,
                   printErr, stdout>>

\* ParseInput, lines 57-59: the ParsedTodoItem is built and returned.
BuildItem ==
    /\ pc = "BuildParsedItem"
    /\ parsedItem' = {BuildParsedItem(todoItem, The(parsedDueDate))}
    /\ pc' = "MarshalIndent"
    /\ UNCHANGED <<addGiven, flagValue, todoItem, parsedDueDate, formattedItem,
                   printErr, stdout, stderr, termination, exitStatus>>

\* PrettyPrintItem, lines 65-68: a marshalling error is returned to main.
Render ==
    /\ pc = "MarshalIndent"
    /\ LET m == MarshalIndent(The(parsedItem)) IN
       IF m.err
       THEN /\ printErr' = "marshal"
            /\ pc' = "return"
            /\ UNCHANGED formattedItem
       ELSE /\ formattedItem' = {m.text}
            /\ pc' = "Printf"
            /\ UNCHANGED printErr
    /\ UNCHANGED <<addGiven, flagValue, todoItem, parsedDueDate, parsedItem,
                   stdout, stderr, termination, exitStatus>>

\* PrettyPrintItem, line 69: fmt.Printf writes the text to standard output
\* and its results are returned to main.
Printf ==
    /\ pc = "Printf"
    /\ \E w \in WriteResults :
          CASE w = "ok" ->
                  /\ stdout' = stdout \o PrintfText(The(formattedItem))
                  /\ pc' = "return"
                  /\ UNCHANGED <<printErr, termination>>
            [] w = "error" ->
                  /\ printErr' = "write"
                  /\ pc' = "return"
                  /\ UNCHANGED <<stdout, termination>>
            [] w = "SIGPIPE" ->
                  /\ termination' = "SIGPIPE"
                  /\ pc' = "exited"
                  /\ UNCHANGED <<stdout, printErr>>
    /\ UNCHANGED <<addGiven, flagValue, todoItem, parsedDueDate, parsedItem,
                   formattedItem, stderr, exitStatus>>

\* main, lines 75-76: the results of PrettyPrintItem are dropped and main
\* returns.
MainReturn ==
    /\ pc = "return"
    /\ termination' = "exit"
    /\ exitStatus' = mainExitStatus(printErr)
    /\ pc' = "exited"
    /\ UNCHANGED <<addGiven, flagValue, todoItem, parsedDueDate, parsedItem,
                   formattedItem, printErr, stdout, stderr>>

Next ==
    \/ FlagParse
    \/ Deserialize
    \/ ParseDueDate
    \/ BuildItem
    \/ Render
    \/ Printf
    \/ MainReturn

Spec == Init /\ [][Next]_vars

(***************************************************************************)
(* Notions the statements below are written in.                            *)
(***************************************************************************)
\* The days of a month of the proleptic Gregorian calendar.
CalendarDays(y, m) ==
    CASE m \in {1, 3, 5, 7, 8, 10, 12} -> 31
      [] m \in {4, 6, 9, 11} -> 30
      [] OTHER -> IF (y % 4 = 0 /\ y % 100 # 0) \/ y % 400 = 0 THEN 29 ELSE 28

\* s in the form four digits, hyphen, two digits, hyphen, two digits.
HasDateForm(s) ==
    /\ Len(s) = 10
    /\ \A i \in {1, 2, 3, 4, 6, 7, 9, 10} : s[i] \in DigitChars
    /\ s[5] = "-" /\ s[8] = "-"

\* s is a valid date in the exact form YYYY-MM-DD: it is what a day of the
\* calendar is written as.
IsDateText(s) ==
    /\ HasDateForm(s)
    /\ LET y == DigitVal(s[1]) * 1000 + DigitVal(s[2]) * 100 + DigitVal(s[3]) * 10
                + DigitVal(s[4])
       IN \E m \in 1..12 : \E d \in 1..CalendarDays(y, m) :
              s = Pad4(y) \o <<"-">> \o Pad2(m) \o <<"-">> \o Pad2(d)

\* The zero-value sentinel date as it is written.
ZeroDateText == <<"0", "0", "0", "1", "-", "0", "1", "-", "0", "1">>

YouEntered == <<"Y", "o", "u", " ", "e", "n", "t", "e", "r", "e", "d", ":">>

StartsWith(s, p) == Len(s) >= Len(p) /\ SubSeq(s, 1, Len(p)) = p

\* The characters encoding/json does not write as they are.
EscapedChars == {"\"", "\\", "<", ">", "&", "\n"}

NoEscapedChar(s) == \A i \in 1..Len(s) : s[i] \notin EscapedChars

\* The inputs {"todo": T, "due": D}, {"todo": T} and {"task": T, "due": D}.
TodoDueInput(T, D) == ObjectText(Member(TodoKey, <<Str(T)>>), Member(DueKey, <<Str(D)>>))

TodoOnlyInput(T) == ObjectText(Member(TodoKey, <<Str(T)>>), <<>>)

TaskDueInput(T, D) == ObjectText(Member(TaskKey, <<Str(T)>>), Member(DueKey, <<Str(D)>>))

\* The run was given -add and flag.Parse has stored it.
Given == addGiven /\ pc # "flag.Parse"

\* The value of -add is {"todo": T, "due": D} with D empty or a valid date;
\* then T is InputTodo and D is InputDue.
InputTodo == flagValue[4].v

InputDue == flagValue[8].v

GoodTodoDueInput ==
    /\ Given
    /\ Len(flagValue) = 9
    /\ flagValue = TodoDueInput(InputTodo, InputDue)
    /\ (InputDue = <<>> \/ IsDateText(InputDue))

\* The date the output must show for the due text D.
ShownDate(D) == IF D = <<>> THEN ZeroDateText ELSE D

\* The write to standard output was made and succeeded.
Written == stdout # <<>>

\* The write to standard output was tried and failed.
WriteFailed == formattedItem # {} /\ stdout = <<>> /\ pc \in {"return", "exited"}

\* How the run ended.
ExitedWith(status) == pc = "exited" /\ termination = "exit" /\ exitStatus = status

FatalWith(msg) == ExitedWith(1) /\ stderr = <<msg>>

TodoFieldText(T) ==
    <<"\"", "T", "o", "d", "o", "\"", ":", " ", "\"">> \o EscapeText(T) \o <<"\"">>

BadDueDeserialized ==
    /\ pc \notin {"flag.Parse", "Unmarshal"}
    /\ stderr # <<InvalidJSON>>
    /\ todoItem.Due # <<>>
    /\ ~IsDateText(todoItem.Due)

\* C2: when the due field of the deserialised item is a non-empty text that
\* is no valid date in the form YYYY-MM-DD, parseDuedate ends the process
\* with "Badly formed due date." and exit status 1; no parsed date and no
\* ParsedTodoItem is ever constructed and nothing is written.
C2_BadDateIsFatal ==
    BadDueDeserialized =>
        /\ pc \in {"parseDuedate", "exited"}
        /\ pc = "exited" => FatalWith(BadDate)
        /\ pc = "parseDuedate" => stderr = <<>>
        /\ parsedDueDate = {}
        /\ parsedItem = {}
        /\ stdout = <<>>

\* A run on a due date of 2020-02-30 has ended with the date diagnostic.
C2_Witness ==
    /\ BadDueDeserialized
    /\ todoItem.Due = <<"2", "0", "2", "0", "-", "0", "2", "-", "3", "0">>
    /\ FatalWith(BadDate)

(***************************************************************************)
(* C3.                                                                     *)
(***************************************************************************)
\* C3: when the value of the flag (given with -add, or its default) is no
\* syntactically valid JSON text, ParseInput
\* ends the process with "Invalid JSON passed to ./todo-app" and exit status
\* 1; the date diagnostic is never written, no item is built and nothing is
\* written to standard output.
C3_InvalidJSONIsFatal ==
    (pc # "flag.Parse" /\ ~checkValid(flagValue)) =>
        /\ pc \in {"Unmarshal", "exited"}
        /\ pc = "exited" => FatalWith(InvalidJSON)
        /\ pc = "Unmarshal" => stderr = <<>>
        /\ parsedDueDate = {}
        /\ parsedItem = {}
        /\ stdout = <<>>

\* A run on the unfinished array ["a", has ended with the JSON diagnostic.
C3_Witness ==
    /\ Given
    /\ flagValue = <<P("["), Str(<<"a">>), P(",")>>
    /\ FatalWith(InvalidJSON)

(***************************************************************************)
(* C4.                                                                     *)
(***************************************************************************)
\* The text is valid JSON of the wrong shape: no object at the top, or an
\* object with a value that is no string under the key todo or due.
WrongShape(toks) ==
    /\ checkValid(toks)
    /\ \/ toks[1].t # "{"
       \/ LET ms == MemberSeq(toks, 2) IN
          \E k \in 1..Len(ms) :
              ms[k].key \in {TodoKey, DueKey} /\ ms[k].val.t # "string"

\* C4, as claimed: when the value of -add is valid JSON of the wrong shape,
\* json.Unmarshal fails and the process ends with "Invalid JSON passed to
\* ./todo-app" and exit status 1: the run never gets past ParseInput's
\* Unmarshal.
C4_AsClaimed ==
    (Given /\ WrongShape(flagValue)) =>
        /\ pc \in {"Unmarshal", "exited"}
        /\ pc = "exited" => FatalWith(InvalidJSON)

(***************************************************************************)
(* C5.                                                                     *)
(***************************************************************************)
\* The value of -add is {"todo": T} or {"todo": T, "due": ""}, T = InputTodo.
DueOmittedOrEmpty ==
    /\ Given
    /\ Len(flagValue) >= 4
    /\ flagValue \in {TodoOnlyInput(InputTodo), TodoDueInput(InputTodo, <<>>)}

\* C5: the input with the due key left out and the input with an empty due
\* give the same run: what holds of the run is a function of T alone.  The
\* item is T with the zero date, no diagnostic is written, an exit is with
\* status 0, and what is written is the rendering of T with the zero date.
C5_OmittedIsEmpty ==
    DueOmittedOrEmpty =>
        /\ stderr = <<>>
        /\ pc # "Unmarshal" => todoItem = [Todo |-> InputTodo, Due |-> <<>>]
        /\ pc \notin {"Unmarshal", "parseDuedate"} => parsedDueDate = {ZeroTime}
        /\ pc \notin {"Unmarshal", "parseDuedate", "BuildParsedItem"}
              => parsedItem = {[Todo |-> InputTodo, Due |-> ZeroTime]}
        /\ termination = "exit" => exitStatus = 0
        /\ pc \in {"return", "exited"} /\ printErr = "" /\ termination # "SIGPIPE"
              => Written
        /\ Written =>
              stdout = YouEntered \o <<"\n", "\n", "\t", "{", "\n", "\t", "\t">>
                       \o TodoFieldText(InputTodo)
                       \o <<",", "\n", "\t", "\t", "\"", "D", "u", "e", "\"", ":", " ", "\"">>
                       \o ZeroDateText
                       \o <<"T", "0", "0", ":", "0", "0", ":", "0", "0", "Z", "\"", "\n",
                            "\t", "}">>

\* A run on {"todo": "a"}, without the due key, has written its text and
\* exited with status 0.
C5_Witness ==
    /\ Given
    /\ flagValue = TodoOnlyInput(<<"a">>)
    /\ Written
    /\ ExitedWith(0)

(***************************************************************************)
(* C6.                                                                     *)
(***************************************************************************)
\* C6, as claimed: an input in the documented form {"task": T, "due": D},
\* with D empty or a valid date, is accepted, the Todo of the ParsedTodoItem
\* is T, and T is in the text written.
C6_AsClaimed ==
    (/\ Given
     /\ Len(flagValue) = 9
     /\ flagValue = TaskDueInput(InputTodo, InputDue)
     /\ (InputDue = <<>> \/ IsDateText(InputDue))) =>
        /\ stderr = <<>>
        /\ parsedItem # {} => The(parsedItem).Todo = InputTodo
        /\ Written => Contains(stdout, TodoFieldText(InputTodo))

(***************************************************************************)
(* C7.                                                                     *)
(***************************************************************************)
\* C7, as claimed: a run without -add works on the default of the flag, and
\* json.Unmarshal does not fail on it: the run does not end with "Invalid
\* JSON passed to ./todo-app".
C7_AsClaimed ==
    (~addGiven /\ pc # "flag.Parse") =>
        /\ flagValue = DefaultAdd
        /\ InvalidJSON \notin {stderr[i] : i \in 1..Len(stderr)}

(***************************************************************************)
(* C8.                                                                     *)
(***************************************************************************)
\* C8, as claimed: when the write to standard output fails, PrettyPrintItem
\* returns the error to main instead of ending the process, main drops it,
\* and the run ends with exit status 0 and without a diagnostic.
C8_AsClaimed ==
    WriteFailed =>
        /\ termination # "SIGPIPE"
        /\ printErr # ""
        /\ stderr = <<>>
        /\ pc = "exited" => ExitedWith(0)

\* C8, amended: when the write to standard output fails with an error that
\* Printf returns, PrettyPrintItem returns it to main, main drops it, and the
\* run ends with exit status 0 and without a diagnostic; when the write hits
\* a broken pipe and SIGPIPE is not ignored, the process is killed by SIGPIPE
\* inside the write, also without a diagnostic.  Either way a run that has
\* built its item never ends with a fatal exit.
C8_WriteFailure ==
    /\ WriteFailed =>
          /\ stderr = <<>>
          /\ termination # "SIGPIPE" =>
                /\ printErr = "write"
                /\ pc = "exited" => ExitedWith(0)
          /\ termination = "SIGPIPE" => pc = "exited" /\ printErr = ""
    /\ parsedItem # {} => stderr = <<>> /\ ~ExitedWith(1)

\* A run whose write failed with an error has ended with exit status 0.
C8_Witness == WriteFailed /\ printErr = "write" /\ ExitedWith(0)

(***************************************************************************)
(* C9.                                                                     *)
(***************************************************************************)
\* C9, as claimed: when the due field of an accepted input is a non-empty
\* valid date, the Due of the ParsedTodoItem differs from the zero-value
\* sentinel.
C9_AsClaimed ==
    (parsedItem # {} /\ todoItem.Due # <<>> /\ IsDateText(todoItem.Due)) =>
        The(parsedItem).Due # ZeroTime

(***************************************************************************)
(* C10.                                                                    *)
(***************************************************************************)
\* The place of a statement in the run.
StepRank(p) ==
    CASE p = "flag.Parse" -> 0
      [] p = "Unmarshal" -> 1
      [] p = "parseDuedate" -> 2
      [] p = "BuildParsedItem" -> 3
      [] p = "MarshalIndent" -> 4
      [] p = "Printf" -> 5
      [] p = "return" -> 6
      [] p = "exited" -> 7

\* A step of the run keeps the order Deserialize, ParseDueDate,
\* BuildParsedItem, Render and repeats nothing: ParseDueDate starts only
\* after Deserialize succeeded, Render only after both succeeded, only Printf
\* writes to standard output, and at most one diagnostic is written.
InOrder ==
    /\ StepRank(pc') > StepRank(pc)
    /\ pc' # "exited" => StepRank(pc') = StepRank(pc) + 1
    /\ pc' = "parseDuedate" => pc = "Unmarshal" /\ stderr' = <<>>
    /\ pc' \in {"BuildParsedItem", "MarshalIndent", "Printf"}
          => parsedDueDate' # {} /\ stderr' = <<>>
    /\ pc' \in {"MarshalIndent", "Printf"} => parsedItem' # {}
    /\ stdout' # stdout => pc = "Printf"
    /\ Len(stderr') <= 1

ThreeOutcomes ==
    pc = "exited" =>
        \/ FatalWith(InvalidJSON) /\ stdout = <<>>
        \/ FatalWith(BadDate) /\ stdout = <<>>
        \/ ExitedWith(0) /\ stderr = <<>>

FourOutcomes ==
    /\ pc = "exited" =>
          \/ FatalWith(InvalidJSON) /\ stdout = <<>>
          \/ FatalWith(BadDate) /\ stdout = <<>>
          \/ ExitedWith(0) /\ stderr = <<>>
          \/ termination = "SIGPIPE" /\ stderr = <<>> /\ stdout = <<>>
    /\ pc # "exited" => termination = "running"

\* The run has ended or has a next step to take: with the order of the
\* steps, which leaves at most seven of them, every run ends.
NotStuck == pc = "exited" \/ ENABLED Next

====
